---- MODULE Spec2Model ----
(***************************************************************************)
(* Crossword CSP solver of generate.py (class CrosswordCreator): node      *)
(* consistency, AC-3 and heuristic backtracking search, as a state machine *)
(* that follows solve() statement by statement.                            *)
(*                                                                         *)
(* Words are sequences of letters; Python's 0-based index k of a word w is *)
(* w[k + 1] here.  Python's None is the record None.  The iteration order  *)
(* of a Python set depends on the hash seed of the process: it is drawn    *)
(* once per run (varOrder for sets of variables, wordOrder for sets of     *)
(* words) and every iteration over a set follows it.                       *)
(***************************************************************************)
EXTENDS Integers, Sequences, FiniteSets

VARIABLES crossword, varOrder, wordOrder, domains, pc, queue, ac3_result,
          assignment, stack, ret, result, rev, calls, tried, first, visited

vars == <<crossword, varOrder, wordOrder, domains, pc, queue, ac3_result,
          assignment, stack, ret, result, rev, calls, tried, first, visited>>

(***************************************************************************)
(* Bounds and the inputs drawn in Init.                                    *)
(***************************************************************************)
MaxVocab == 4

CAT == <<"C", "A", "T">>
CAR == <<"C", "A", "R">>
ART == <<"A", "R", "T">>
TAR == <<"T", "A", "R">>
AT == <<"A", "T">>
TA == <<"T", "A">>
AA == <<"A", "A">>

Universe == {CAT, CAR, ART, TAR, AT, TA}

\* Grid structures, as the set of fillable cells <<row, column>>.
\* One across slot of length 2.
StructureOne == {<<0, 0>>, <<0, 1>>}
\* An across slot of length 3 crossed at its middle cell by a down slot of length 2.
StructureTee == {<<0, 0>>, <<0, 1>>, <<0, 2>>, <<1, 1>>}
\* Two across slots of length 3 crossed at their last cell by a down slot of length 3.
StructureThree == {<<0, 0>>, <<0, 1>>, <<0, 2>>, <<1, 2>>, <<2, 0>>, <<2, 1>>, <<2, 2>>}
\* Two across slots of length 2 that do not touch.
StructureApart == {<<0, 0>>, <<0, 1>>, <<2, 0>>, <<2, 1>>}

\* A 2 x 2 block: two across and two down slots of length 2, each crossing two others.
StructureBlock == {<<0, 0>>, <<0, 1>>, <<1, 0>>, <<1, 1>>}

Structures == {StructureOne, StructureTee, StructureThree, StructureApart, StructureBlock}

None == [kind |-> "None", value |-> <<>>]
Pending == [kind |-> "pending", value |-> <<>>]
Dict(a) == [kind |-> "dict", value |-> a]
NoCall == [called |-> FALSE]

RECURSIVE IterationOrders(_)
IterationOrders(S) ==
    IF S = {} THEN {<<>>}
    ELSE UNION {{<<x>> \o order : order \in IterationOrders(S \ {x})} : x \in S}

(***************************************************************************)
(* Puzzle model (crossword.py): variables, overlaps, neighbors.            *)
(***************************************************************************)
Step(cell, direction) ==
    IF direction = "across" THEN <<cell[1], cell[2] + 1>> ELSE <<cell[1] + 1, cell[2]>>

Back(cell, direction) ==
    IF direction = "across" THEN <<cell[1], cell[2] - 1>> ELSE <<cell[1] - 1, cell[2]>>

RECURSIVE RunLength(_, _, _)
RunLength(structure, cell, direction) ==
    IF cell \in structure
    THEN 1 + RunLength(structure, Step(cell, direction), direction)
    ELSE 0

Variable(cell, direction, length) ==
    [i |-> cell[1], j |-> cell[2], direction |-> direction, length |-> length]

Variables(structure) ==
    {Variable(c[1], c[2], RunLength(structure, c[1], c[2])) :
        c \in {d \in structure \X {"across", "down"} :
                  /\ Back(d[1], d[2]) \notin structure
                  /\ RunLength(structure, d[1], d[2]) >= 2}}

cells(v) ==
    [k \in 1..v.length |->
        <<v.i + (IF v.direction = "down" THEN k - 1 ELSE 0),
          v.j + (IF v.direction = "across" THEN k - 1 ELSE 0)>>]

Range(s) == {s[k] : k \in DOMAIN s}

IndexOf(s, e) == CHOOSE k \in DOMAIN s : s[k] = e

Overlap(x, y) ==
    LET shared == Range(cells(x)) \cap Range(cells(y))
    IN  IF shared = {}
        THEN <<>>
        ELSE LET c == CHOOSE d \in shared : TRUE
             IN  <<IndexOf(cells(x), c) - 1, IndexOf(cells(y), c) - 1>>

Overlaps(variables) ==
    [p \in {q \in variables \X variables : q[1] # q[2]} |-> Overlap(p[1], p[2])]

Crossword(structure, words) ==
    [structure |-> structure,
     variables |-> Variables(structure),
     overlaps |-> Overlaps(Variables(structure)),
     words |-> words]

neighbors(var) ==
    {v \in crossword.variables : v # var /\ crossword.overlaps[<<v, var>>] # <<>>}

\* self.crossword.overlaps.get((x, y)): None (here <<>>) for a missing key.
overlaps_get(x, y) ==
    IF <<x, y>> \in DOMAIN crossword.overlaps THEN crossword.overlaps[<<x, y>>] ELSE <<>>

\* Iteration over a set of variables, or of words, in this run's order.
IterVars(S) == SelectSeq(varOrder, LAMBDA v : v \in S)
IterWords(S) == SelectSeq(wordOrder, LAMBDA w : w \in S)

(***************************************************************************)
(* CrosswordCreator.__init__                                               *)
(***************************************************************************)
\* Domains built already filtered by length.
InitDomainsByLength(cw) ==
    [var \in cw.variables |-> {word \in cw.words : Len(word) = var.length}]

InitDomains(cw) == [var \in cw.variables |-> cw.words]

(***************************************************************************)
(* enforce_node_consistency                                                *)
(***************************************************************************)
\* NodeWords with `<` for `!=`: only the words that are too short are removed.
RECURSIVE NodeWordsTooShort(_, _, _)
NodeWordsTooShort(dom, var, todo) ==
    IF todo = <<>>
    THEN dom
    ELSE LET word == Head(todo)
         IN  IF Len(word) < var.length
             THEN NodeWordsTooShort(dom \ {word}, var, Tail(todo))
             ELSE NodeWordsTooShort(dom, var, Tail(todo))

\* NodeWords with `>` for `!=`: only the words that are too long are removed.
RECURSIVE NodeWordsTooLong(_, _, _)
NodeWordsTooLong(dom, var, todo) ==
    IF todo = <<>>
    THEN dom
    ELSE LET word == Head(todo)
         IN  IF Len(word) > var.length
             THEN NodeWordsTooLong(dom \ {word}, var, Tail(todo))
             ELSE NodeWordsTooLong(dom, var, Tail(todo))

RECURSIVE NodeWords(_, _, _)
NodeWords(dom, var, todo) ==
    IF todo = <<>>
    THEN dom
    ELSE LET word == Head(todo)
         IN  IF Len(word) # var.length
             THEN NodeWords(dom \ {word}, var, Tail(todo))
             ELSE NodeWords(dom, var, Tail(todo))

RECURSIVE NodeVars(_, _)
NodeVars(doms, todo) ==
    IF todo = <<>>
    THEN doms
    ELSE LET var == Head(todo)
         IN  NodeVars([doms EXCEPT ![var] = NodeWords(doms[var], var, IterWords(doms[var]))],
                      Tail(todo))

enforce_node_consistency(doms) == NodeVars(doms, varOrder)

(***************************************************************************)
(* revise                                                                  *)
(***************************************************************************)
\* ReviseWords with any() for all(): a word is removed as soon as one word of y
\* disagrees with it.
RECURSIVE ReviseWordsAny(_, _, _, _, _)
ReviseWordsAny(acc, x, y, overlap, todo) ==
    IF todo = <<>>
    THEN acc
    ELSE LET word_x == Head(todo)
             i == overlap[1]
             j == overlap[2]
         IN  IF \E word_y \in acc.domains[y] : word_x[i + 1] # word_y[j + 1]
             THEN ReviseWordsAny([domains |-> [acc.domains EXCEPT ![x] = @ \ {word_x}],
                                  revised |-> TRUE],
                                 x, y, overlap, Tail(todo))
             ELSE ReviseWordsAny(acc, x, y, overlap, Tail(todo))

\* revise reading the overlap the wrong way round.
RECURSIVE ReviseWordsSwapped(_, _, _, _, _)
ReviseWordsSwapped(acc, x, y, overlap, todo) ==
    IF todo = <<>>
    THEN acc
    ELSE LET word_x == Head(todo)
             i == overlap[1]
             j == overlap[2]
         IN  IF \A word_y \in acc.domains[y] : word_x[j + 1] # word_y[i + 1]
             THEN ReviseWordsSwapped([domains |-> [acc.domains EXCEPT ![x] = @ \ {word_x}],
                                      revised |-> TRUE],
                                     x, y, overlap, Tail(todo))
             ELSE ReviseWordsSwapped(acc, x, y, overlap, Tail(todo))

RECURSIVE ReviseWords(_, _, _, _, _)
ReviseWords(acc, x, y, overlap, todo) ==
    IF todo = <<>>
    THEN acc
    ELSE LET word_x == Head(todo)
             i == overlap[1]
             j == overlap[2]
         IN  IF \A word_y \in acc.domains[y] : word_x[i + 1] # word_y[j + 1]
             THEN ReviseWords([domains |-> [acc.domains EXCEPT ![x] = @ \ {word_x}],
                               revised |-> TRUE],
                              x, y, overlap, Tail(todo))
             ELSE ReviseWords(acc, x, y, overlap, Tail(todo))

revise(doms, x, y) ==
    LET overlap == overlaps_get(x, y)
    IN  IF overlap # <<>>
        THEN ReviseWords([domains |-> doms, revised |-> FALSE], x, y, overlap,
                         IterWords(doms[x]))
        ELSE [domains |-> doms, revised |-> FALSE]

(***************************************************************************)
(* ac3                                                                     *)
(***************************************************************************)
RECURSIVE Flatten(_)
Flatten(ss) == IF ss = <<>> THEN <<>> ELSE Head(ss) \o Flatten(Tail(ss))

ArcsFrom(x, ys) == [k \in DOMAIN ys |-> <<x, ys[k]>>]
ArcsTo(zs, x) == [k \in DOMAIN zs |-> <<zs[k], x>>]

\* arcs = [(x, y) for x in self.domains for y in self.crossword.neighbors(x)]
initial_arcs ==
    Flatten([k \in DOMAIN varOrder |-> ArcsFrom(varOrder[k], IterVars(neighbors(varOrder[k])))])

\* requeue that forgets the arcs into x.
requeue_nothing(x, y) == <<>>

\* requeue without `- {y}`: the arc (y, x) is enqueued too.
requeue_all_neighbors(x, y) == ArcsTo(IterVars(neighbors(x)), x)

\* for z in self.crossword.neighbors(x) - {y}: queue.append((z, x))
requeue(x, y) == ArcsTo(IterVars(neighbors(x) \ {y}), x)

(***************************************************************************)
(* assignment_complete, consistent                                         *)
(***************************************************************************)
assignment_complete(a) == DOMAIN a = crossword.variables

\* consistent without the check that the assigned words are distinct.
consistent_overlaps_only(a) ==
    IF \E var \in DOMAIN a : Len(a[var]) # var.length
    THEN FALSE
    ELSE \A var \in DOMAIN a : \A neighbor \in neighbors(var) :
            neighbor \in DOMAIN a =>
                LET i == crossword.overlaps[<<var, neighbor>>][1]
                    j == crossword.overlaps[<<var, neighbor>>][2]
                IN  a[var][i + 1] = a[neighbor][j + 1]

consistent_distinct_lengths_only(a) ==
    IF Cardinality({a[v] : v \in DOMAIN a}) # Cardinality(DOMAIN a)
    THEN FALSE
    ELSE ~(\E var \in DOMAIN a : Len(a[var]) # var.length)

consistent(a) ==
    IF Cardinality({a[v] : v \in DOMAIN a}) # Cardinality(DOMAIN a)
    THEN FALSE
    ELSE IF \E var \in DOMAIN a : Len(a[var]) # var.length
    THEN FALSE
    ELSE \A var \in DOMAIN a : \A neighbor \in neighbors(var) :
            neighbor \in DOMAIN a =>
                LET i == crossword.overlaps[<<var, neighbor>>][1]
                    j == crossword.overlaps[<<var, neighbor>>][2]
                IN  a[var][i + 1] = a[neighbor][j + 1]

(***************************************************************************)
(* order_domain_values                                                     *)
(***************************************************************************)
RECURSIVE SumOver(_, _)
SumOver(f, todo) == IF todo = <<>> THEN 0 ELSE f[Head(todo)] + SumOver(f, Tail(todo))

\* count_conflicts counting the neighbour words that agree.
count_agreements(var, a, value) ==
    LET unassigned == {n \in neighbors(var) : n \notin DOMAIN a}
        per == [neighbor \in unassigned |->
                   LET i == crossword.overlaps[<<var, neighbor>>][1]
                       j == crossword.overlaps[<<var, neighbor>>][2]
                   IN  Cardinality({neighbor_value \in domains[neighbor] :
                                       value[i + 1] = neighbor_value[j + 1]})]
    IN  SumOver(per, IterVars(unassigned))

count_conflicts(var, a, value) ==
    LET unassigned == {n \in neighbors(var) : n \notin DOMAIN a}
        per == [neighbor \in unassigned |->
                   LET i == crossword.overlaps[<<var, neighbor>>][1]
                       j == crossword.overlaps[<<var, neighbor>>][2]
                   IN  Cardinality({neighbor_value \in domains[neighbor] :
                                       value[i + 1] # neighbor_value[j + 1]})]
    IN  SumOver(per, IterVars(unassigned))

\* sorted(iterable, key): a stable sort of the iteration order.
RECURSIVE StableByKey(_, _, _, _)
StableByKey(seq, key, k, top) ==
    IF k > top
    THEN <<>>
    ELSE SelectSeq(seq, LAMBDA e : key[e] = k) \o StableByKey(seq, key, k + 1, top)

Max(S) == CHOOSE m \in S : \A n \in S : n <= m

sorted(seq, key) ==
    IF seq = <<>> THEN <<>> ELSE StableByKey(seq, key, 0, Max({key[e] : e \in Range(seq)}))

\* order_domain_values that keeps only the least constraining value.
order_domain_values_best_only(var, a) ==
    LET values == sorted(IterWords(domains[var]),
                         [value \in domains[var] |-> count_conflicts(var, a, value)])
    IN  IF values = <<>> THEN <<>> ELSE <<Head(values)>>

\* order_domain_values that offers the whole vocabulary.
order_vocabulary(var, a) == IterWords(crossword.words)

order_domain_values(var, a) ==
    sorted(IterWords(domains[var]),
           [value \in domains[var] |-> count_conflicts(var, a, value)])

(***************************************************************************)
(* select_unassigned_variable                                              *)
(***************************************************************************)
mrv(v) == Cardinality(domains[v])

degree(v) == Cardinality(neighbors(v))

KeyLessFewestNeighbors(u, v) ==
    \/ mrv(u) < mrv(v)
    \/ mrv(u) = mrv(v) /\ degree(u) < degree(v)

\* Python's order on the tuples (mrv(var), -degree(var)).
KeyLess(u, v) ==
    \/ mrv(u) < mrv(v)
    \/ mrv(u) = mrv(v) /\ -degree(u) < -degree(v)

\* select_unassigned_variable without the heuristics: the first unassigned variable.
select_first_unassigned(a) ==
    Head(IterVars({v \in crossword.variables : v \notin DOMAIN a}))

\* min(iterable, key): the first element, in iteration order, of minimal key.
select_unassigned_variable(a) ==
    LET unassigned == IterVars({v \in crossword.variables : v \notin DOMAIN a})
        k == CHOOSE m \in DOMAIN unassigned :
                 /\ \A n \in DOMAIN unassigned : ~KeyLess(unassigned[n], unassigned[m])
                 /\ \A n \in 1..(m - 1) : KeyLess(unassigned[m], unassigned[n])
    IN  unassigned[k]

(***************************************************************************)
(* Assignment updates of backtrack                                         *)
(***************************************************************************)
\* assignment[var] = value
SetItem(a, var, value) ==
    [v \in DOMAIN a \cup {var} |-> IF v = var THEN value ELSE a[v]]

\* The `del` forgotten.
DelItemForgotten(a, var) == a

\* del assignment[var]
DelItem(a, var) == [v \in DOMAIN a \ {var} |-> a[v]]

\* Python truth value of backtrack's result: None and the empty dict are false.
Truthy(r) == r.kind = "dict" /\ DOMAIN r.value # {}

(***************************************************************************)
(* Initial state: a CrosswordCreator for some crossword, about to solve(). *)
(***************************************************************************)
Vocabularies == {V \in SUBSET Universe : V # {} /\ Cardinality(V) <= MaxVocab}

Fresh(cw) ==
    /\ crossword = cw
    /\ varOrder \in IterationOrders(cw.variables)
    /\ wordOrder \in IterationOrders(cw.words)
    /\ domains = InitDomains(cw)
    /\ pc = "solve"
    /\ queue = <<>>
    /\ ac3_result = "pending"
    /\ assignment = <<>>
    /\ stack = <<>>
    /\ ret = Pending
    /\ result = Pending
    /\ rev = NoCall
    /\ calls = 0
    /\ tried = 0
    /\ visited = {}

Init ==
    /\ \E structure \in Structures, words \in Vocabularies :
           Fresh(Crossword(structure, words))
    /\ first = Pending

(***************************************************************************)
(* solve(), line 92: self.enforce_node_consistency()                       *)
(***************************************************************************)
solve_enforce_node_consistency ==
    /\ pc = "solve"
    /\ domains' = enforce_node_consistency(domains)
    /\ pc' = "ac3"
    /\ UNCHANGED <<crossword, varOrder, wordOrder, queue, ac3_result, assignment,
                   stack, ret, result, rev, calls, tried, first, visited>>

(***************************************************************************)
(* solve(), line 93: self.ac3()                                            *)
(***************************************************************************)
ac3_begin ==
    /\ pc = "ac3"
    /\ queue' = initial_arcs
    /\ pc' = "ac3_while"
    /\ UNCHANGED <<crossword, varOrder, wordOrder, domains, ac3_result, assignment,
                   stack, ret, result, rev, calls, tried, first, visited>>

\* ac3_step with queue[0] for queue.pop(0): the arc is never taken off the queue.
ac3_step_peek ==
    /\ pc = "ac3_while"
    /\ queue # <<>>
    /\ LET x == Head(queue)[1]
           y == Head(queue)[2]
           r == revise(domains, x, y)
       IN  /\ domains' = r.domains
           /\ rev' = [called |-> TRUE, x |-> x, y |-> y, before |-> domains,
                      returned |-> r.revised]
           /\ IF r.revised
              THEN IF r.domains[x] = {}
                   THEN /\ ac3_result' = "False"
                        /\ queue' = <<>>
                        /\ pc' = "backtrack"
                   ELSE /\ queue' = queue \o requeue(x, y)
                        /\ UNCHANGED <<ac3_result, pc>>
              ELSE /\ queue' = queue
                   /\ UNCHANGED <<ac3_result, pc>>
    /\ UNCHANGED <<crossword, varOrder, wordOrder, assignment, stack, ret, result,
                   calls, tried, first, visited>>

\* One iteration of `while queue:`.
ac3_step ==
    /\ pc = "ac3_while"
    /\ queue # <<>>
    /\ LET x == Head(queue)[1]
           y == Head(queue)[2]
           r == revise(domains, x, y)
       IN  /\ domains' = r.domains
           /\ rev' = [called |-> TRUE, x |-> x, y |-> y, before |-> domains,
                      returned |-> r.revised]
           /\ IF r.revised
              THEN IF r.domains[x] = {}
                   THEN /\ ac3_result' = "False"
                        /\ queue' = <<>>
                        /\ pc' = "backtrack"
                   ELSE /\ queue' = Tail(queue) \o requeue(x, y)
                        /\ UNCHANGED <<ac3_result, pc>>
              ELSE /\ queue' = Tail(queue)
                   /\ UNCHANGED <<ac3_result, pc>>
    /\ UNCHANGED <<crossword, varOrder, wordOrder, assignment, stack, ret, result,
                   calls, tried, first, visited>>

\* The queue is empty: return True.
ac3_return ==
    /\ pc = "ac3_while"
    /\ queue = <<>>
    /\ ac3_result' = "True"
    /\ pc' = "backtrack"
    /\ UNCHANGED <<crossword, varOrder, wordOrder, domains, queue, assignment,
                   stack, ret, result, rev, calls, tried, first, visited>>

(***************************************************************************)
(* solve(), line 94: return self.backtrack(dict())                         *)
(***************************************************************************)
solve_backtrack ==
    /\ pc = "backtrack"
    /\ assignment' = <<>>
    /\ calls' = calls + 1
    /\ pc' = "bt_enter"
    /\ UNCHANGED <<crossword, varOrder, wordOrder, domains, queue, ac3_result,
                   stack, ret, result, rev, tried, first, visited>>

\* backtrack(), lines 195-199: return a complete assignment, or pick the
\* variable and the order of its values.
backtrack_enter ==
    /\ pc = "bt_enter"
    /\ IF assignment_complete(assignment)
       THEN /\ ret' = Dict(assignment)
            /\ pc' = "bt_return"
            /\ UNCHANGED stack
       ELSE LET var == select_unassigned_variable(assignment)
            IN  /\ stack' = <<[var |-> var,
                               values |-> order_domain_values(var, assignment),
                               k |-> 1,
                               before |-> [assignment |-> assignment, domains |-> domains]]>>
                              \o stack
                /\ pc' = "bt_for"
                /\ UNCHANGED ret
    /\ UNCHANGED <<crossword, varOrder, wordOrder, domains, queue, ac3_result,
                   assignment, result, rev, calls, tried, first, visited>>

\* Line 200: assignment[var] = value, for the next value of the loop.
backtrack_assign ==
    /\ pc = "bt_for"
    /\ Head(stack).k <= Len(Head(stack).values)
    /\ LET frame == Head(stack)
       IN  /\ assignment' = SetItem(assignment, frame.var, frame.values[frame.k])
           /\ stack' = <<[frame EXCEPT !.before =
                             [assignment |-> assignment, domains |-> domains]]>>
                       \o Tail(stack)
    /\ tried' = tried + 1
    /\ visited' = visited \cup {<<assignment, Head(stack).var,
                                  Head(stack).values[Head(stack).k]>>}
    /\ pc' = "bt_check"
    /\ UNCHANGED <<crossword, varOrder, wordOrder, domains, queue, ac3_result,
                   ret, result, rev, calls, first>>

\* Lines 201-202: recurse when the assignment is consistent.
backtrack_check ==
    /\ pc = "bt_check"
    /\ IF consistent(assignment)
       THEN /\ calls' = calls + 1
            /\ pc' = "bt_enter"
       ELSE /\ pc' = "bt_undo"
            /\ UNCHANGED calls
    /\ UNCHANGED <<crossword, varOrder, wordOrder, domains, queue, ac3_result,
                   assignment, stack, ret, result, rev, tried, first, visited>>

\* backtrack_undo with `return None` inside the loop: no other value is tried.
backtrack_undo_and_return ==
    /\ pc = "bt_undo"
    /\ assignment' = DelItem(assignment, Head(stack).var)
    /\ stack' = <<[Head(stack) EXCEPT !.k = Len(Head(stack).values) + 1]>> \o Tail(stack)
    /\ pc' = "bt_for"
    /\ UNCHANGED <<crossword, varOrder, wordOrder, domains, queue, ac3_result,
                   ret, result, rev, calls, tried, first, visited>>

\* Line 205: del assignment[var], and on to the next value.
backtrack_undo_retry ==
    /\ pc = "bt_undo"
    /\ assignment' = DelItem(assignment, Head(stack).var)
    /\ stack' = stack
    /\ pc' = "bt_for"
    /\ UNCHANGED <<crossword, varOrder, wordOrder, domains, queue, ac3_result,
                   ret, result, rev, calls, tried, first, visited>>

backtrack_undo ==
    /\ pc = "bt_undo"
    /\ assignment' = DelItem(assignment, Head(stack).var)
    /\ stack' = <<[Head(stack) EXCEPT !.k = @ + 1]>> \o Tail(stack)
    /\ pc' = "bt_for"
    /\ UNCHANGED <<crossword, varOrder, wordOrder, domains, queue, ac3_result,
                   ret, result, rev, calls, tried, first, visited>>

\* Line 207: the values are exhausted, return None.
backtrack_exhausted ==
    /\ pc = "bt_for"
    /\ Head(stack).k > Len(Head(stack).values)
    /\ ret' = None
    /\ stack' = Tail(stack)
    /\ pc' = "bt_return"
    /\ UNCHANGED <<crossword, varOrder, wordOrder, domains, queue, ac3_result,
                   assignment, result, rev, calls, tried, first, visited>>

\* A call of backtrack returns ret: to solve() (line 94), or to the frame
\* that made the recursive call (lines 202-204).
backtrack_return ==
    /\ pc = "bt_return"
    /\ IF stack = <<>>
       THEN /\ result' = ret
            /\ pc' = "done"
            /\ UNCHANGED <<stack, ret>>
       ELSE IF Truthy(ret)
            THEN /\ stack' = Tail(stack)
                 /\ UNCHANGED <<pc, ret, result>>
            ELSE /\ pc' = "bt_undo"
                 /\ UNCHANGED <<stack, ret, result>>
    /\ UNCHANGED <<crossword, varOrder, wordOrder, domains, queue, ac3_result,
                   assignment, rev, calls, tried, first, visited>>

Next ==
    \/ solve_enforce_node_consistency
    \/ ac3_begin
    \/ ac3_step
    \/ ac3_return
    \/ solve_backtrack
    \/ backtrack_enter
    \/ backtrack_assign
    \/ backtrack_check
    \/ backtrack_undo
    \/ backtrack_exhausted
    \/ backtrack_return

Spec == Init /\ [][Next]_vars

(***************************************************************************)
(* main() run a second time on the same structure and words: a new process *)
(* (a new hash seed, so new iteration orders) and a new CrosswordCreator.  *)
(***************************************************************************)
main_again ==
    /\ pc = "done"
    /\ first = Pending
    /\ first' = result
    /\ varOrder' \in IterationOrders(crossword.variables)
    /\ wordOrder' \in IterationOrders(crossword.words)
    /\ domains' = InitDomains(crossword)
    /\ pc' = "solve"
    /\ queue' = <<>>
    /\ ac3_result' = "pending"
    /\ assignment' = <<>>
    /\ stack' = <<>>
    /\ ret' = Pending
    /\ result' = Pending
    /\ rev' = NoCall
    /\ calls' = 0
    /\ tried' = 0
    /\ visited' = {}
    /\ UNCHANGED crossword

NextTwice ==
    \/ Next
    \/ main_again

\* The first run follows one iteration order, the second run any order.
InitTwice ==
    /\ Init
    /\ varOrder = CHOOSE order \in IterationOrders(crossword.variables) : TRUE
    /\ wordOrder = CHOOSE order \in IterationOrders(crossword.words) : TRUE

SpecTwice == InitTwice /\ [][NextTwice]_vars

(***************************************************************************)
(* revise(x, y) called directly, on any ordered pair of variables and any  *)
(* number of times, once the domains are node consistent.                  *)
(***************************************************************************)
revise_call ==
    /\ pc = "ac3"
    /\ \E x, y \in crossword.variables :
           LET r == revise(domains, x, y)
           IN  /\ domains' = r.domains
               /\ rev' = [called |-> TRUE, x |-> x, y |-> y, before |-> domains,
                          returned |-> r.revised]
    /\ UNCHANGED <<crossword, varOrder, wordOrder, pc, queue, ac3_result, assignment,
                   stack, ret, result, calls, tried, first, visited>>

NextRevise ==
    \/ solve_enforce_node_consistency
    \/ revise_call

\* The order of the variables plays no part in revise: one order is enough.
InitRevise ==
    /\ Init
    /\ varOrder = CHOOSE order \in IterationOrders(crossword.variables) : TRUE

SpecRevise == InitRevise /\ [][NextRevise]_vars

(***************************************************************************)
(* ac3(arcs) called directly with any list of at most MaxArcs arcs between *)
(* distinct variables, once the domains are node consistent.  The program  *)
(* is sequential: once in the loop of ac3 it takes the loop's next step.   *)
(***************************************************************************)
MaxArcs == 2

RECURSIVE ArcLists(_, _)
ArcLists(pairs, n) ==
    IF n = 0
    THEN {<<>>}
    ELSE ArcLists(pairs, n - 1)
         \cup {Append(arcs, p) : arcs \in {a \in ArcLists(pairs, n - 1) : Len(a) = n - 1},
                                  p \in pairs}

\* queue = arcs[:]
ac3_call ==
    /\ pc = "ac3"
    /\ \E arcs \in ArcLists({p \in crossword.variables \X crossword.variables : p[1] # p[2]},
                              MaxArcs) :
           queue' = arcs
    /\ pc' = "ac3_while"
    /\ UNCHANGED <<crossword, varOrder, wordOrder, domains, ac3_result, assignment,
                   stack, ret, result, rev, calls, tried, first, visited>>

NextAc3 ==
    \/ solve_enforce_node_consistency
    \/ ac3_call
    \/ ac3_step
    \/ ac3_return

SpecAc3 == InitTwice /\ [][NextAc3]_vars /\ WF_vars(ac3_step \/ ac3_return)

(***************************************************************************)
(* What a solution of the crossword is, stated on the cells of the grid.   *)
(***************************************************************************)
Complete(a) == DOMAIN a = crossword.variables

DistinctWords(a) == \A u, v \in DOMAIN a : u # v => a[u] # a[v]

LengthsMatch(a) == \A v \in DOMAIN a : Len(a[v]) = v.length

\* Two variables that cover the same cell put the same letter in it.
SharedCellsAgree(a) ==
    \A u, v \in DOMAIN a : u # v =>
        \A k \in 1..u.length, m \in 1..v.length :
            cells(u)[k] = cells(v)[m] => a[u][k] = a[v][m]

IsSolution(a) ==
    /\ Complete(a)
    /\ DistinctWords(a)
    /\ LengthsMatch(a)
    /\ SharedCellsAgree(a)

SolutionExists == \E a \in [crossword.variables -> crossword.words] : IsSolution(a)

NoEmptyDomain == \A v \in crossword.variables : domains[v] # {}

(***************************************************************************)
(* Claims                                                                  *)
(***************************************************************************)

\* C1: what solve() returns is either None or an assignment that is complete,
\* has pairwise distinct words over all variables, has every word of its
\* variable's length and agrees on the letter of every shared cell; never a
\* partial assignment.
C1_ReturnedAssignmentIsSolution ==
    pc = "done" => result = None \/ (result.kind = "dict" /\ IsSolution(result.value))

\* A three-variable crossword was solved.
C1_Witness ==
    /\ pc = "done"
    /\ result.kind = "dict"
    /\ Cardinality(DOMAIN result.value) = 3

\* C2 as claimed: once ac3() has returned False, backtrack() is never invoked
\* and solve() returns None.
C2_Ac3FalseSkipsSearch ==
    ac3_result = "False" => calls = 0 /\ (pc = "done" => result = None)

\* C2 as amended: once ac3() has returned False, solve() returns None;
\* backtrack() is invoked once, on the empty assignment, and returns None
\* without assigning any value.
C2_Ac3FalseReturnsNone ==
    ac3_result = "False" =>
        /\ calls <= 1
        /\ tried = 0
        /\ assignment = <<>>
        /\ pc = "done" => result = None /\ calls = 1

\* solve() has returned after ac3() returned False.
C2_Witness == pc = "done" /\ ac3_result = "False"

\* C3: solve() returns None exactly when no assignment of vocabulary words to
\* all variables satisfies length, global distinctness and overlap agreement.
C3_NoneIffNoSolution ==
    pc = "done" => (result = None <=> ~SolutionExists)

\* The search tried values and exhausted them although arc consistency had
\* left no domain empty.
C3_Witness ==
    /\ pc = "done"
    /\ result = None
    /\ ac3_result = "True"
    /\ NoEmptyDomain
    /\ tried > 1

\* C4: ac3() returns True only if no variable has an empty domain (also a
\* domain emptied by node consistency, also a variable without neighbours),
\* and returns False only if some domain is empty.
C4_Ac3ResultTellsEmptyDomain ==
    /\ ac3_result = "True" => NoEmptyDomain
    /\ ac3_result = "False" => ~NoEmptyDomain

\* Every word of x that is left has a word of y with the same letter in the
\* cell they share.
ArcConsistent(x, y) ==
    \A k \in 1..x.length, m \in 1..y.length :
        cells(x)[k] = cells(y)[m] =>
            \A w \in domains[x] : \E u \in domains[y] : w[k] = u[m]

\* C5: when ac3() with the default arcs has returned True, every ordered pair
\* of overlapping variables is arc consistent, and revise(x, y) called again
\* removes nothing and returns False.
C5_Ac3Fixpoint ==
    pc = "backtrack" /\ ac3_result = "True" =>
        \A x, y \in crossword.variables : x # y =>
            /\ ArcConsistent(x, y)
            /\ revise(domains, x, y) = [domains |-> domains, revised |-> FALSE]

\* ac3() returned True after it had removed words, and left no domain empty.
C5_Witness ==
    /\ pc = "backtrack"
    /\ ac3_result = "True"
    /\ NoEmptyDomain
    /\ rev.called
    /\ \E v \in crossword.variables :
           domains[v] # {w \in crossword.words : Len(w) = v.length}

\* The variables for which the vocabulary has no word of their length.
MissingLength ==
    {v \in crossword.variables : \A w \in crossword.words : Len(w) # v.length}

\* C6 as claimed: if the vocabulary has no word of the length of some variable
\* v, node consistency leaves v's domain empty and solve() returns None
\* without entering the search.
C6_MissingLengthSkipsSearch ==
    pc # "solve" /\ MissingLength # {} =>
        /\ \A v \in MissingLength : domains[v] = {}
        /\ calls = 0
        /\ pc = "done" => result = None

\* C6 as amended: node consistency leaves v's domain empty and solve() returns
\* None; backtrack() is invoked, but assigns no value.
C6_MissingLengthReturnsNone ==
    pc # "solve" /\ MissingLength # {} =>
        /\ \A v \in MissingLength : domains[v] = {}
        /\ tried = 0
        /\ assignment = <<>>
        /\ pc = "done" => result = None /\ calls = 1

\* solve() has returned for a vocabulary that lacks the words for one
\* variable but has words for another.
C6_Witness ==
    /\ pc = "done"
    /\ MissingLength # {}
    /\ MissingLength # crossword.variables

\* C7: right after enforce_node_consistency() the domain of every variable is
\* exactly the set of vocabulary words of the variable's length.
C7_NodeConsistent ==
    pc = "ac3" =>
        \A v \in crossword.variables :
            domains[v] = {w \in crossword.words : Len(w) = v.length}

\* Node consistency removed some words of a domain and kept others.
C7_Witness ==
    /\ pc = "ac3"
    /\ \E v \in crossword.variables : domains[v] # {} /\ domains[v] # crossword.words

\* C8: when a tentative assignment has failed and the loop of backtrack() is
\* back at its head (for the next value, or to return None to the parent),
\* the assignment and all domains are what they were just before the value
\* was assigned.
C8_BacktrackRestores ==
    pc = "bt_for" /\ Head(stack).k > 1 =>
        /\ assignment = Head(stack).before.assignment
        /\ domains = Head(stack).before.domains

\* A value was undone after the recursive call on it had returned None.
C8_Witness ==
    /\ pc = "bt_for"
    /\ Head(stack).k > 1
    /\ ret = None
    /\ assignment # <<>>

\* C9 as claimed: the second run on the same structure and words returns what
\* the first run returned, whatever the iteration orders of the two runs.
C9_SameResultTwice ==
    pc = "done" /\ first # Pending => result = first

\* C9 as amended: the two runs both return None, or both return a solution of
\* the crossword (not always the same one).
C9_SameOutcomeTwice ==
    pc = "done" /\ first # Pending =>
        \/ result = None /\ first = None
        \/ /\ result.kind = "dict" /\ IsSolution(result.value)
           /\ first.kind = "dict" /\ IsSolution(first.value)

\* The two runs returned two different solutions.
C9_Witness ==
    /\ pc = "done"
    /\ first.kind = "dict"
    /\ result.kind = "dict"
    /\ result # first

\* The words of x, taken from the domains d, that have a word of y with the
\* same letter in the shared cell.
Supported(d, x, y) ==
    {w \in d[x] : \E k \in 1..x.length, m \in 1..y.length :
                      /\ cells(x)[k] = cells(y)[m]
                      /\ \E u \in d[y] : w[k] = u[m]}

SharesCell(x, y) == x # y /\ Range(cells(x)) \cap Range(cells(y)) # {}

\* C10: revise(x, y) of overlapping x and y leaves in x's domain exactly the
\* words that have a word of y's domain with the same letter at the overlap
\* (none when y's domain is empty), changes no other domain and returns True
\* iff it removed a word; without overlap it changes nothing and returns False.
C10_ReviseExact ==
    rev.called =>
        IF SharesCell(rev.x, rev.y)
        THEN /\ domains = [rev.before EXCEPT ![rev.x] = Supported(rev.before, rev.x, rev.y)]
             /\ rev.returned = (domains[rev.x] # rev.before[rev.x])
        ELSE /\ domains = rev.before
             /\ rev.returned = FALSE

\* revise removed some words of x and kept others.
C10_Witness ==
    /\ rev.called
    /\ rev.returned
    /\ domains[rev.x] # {}

\* C11: ac3() takes the arcs from the head of the queue; when revise(x, y) on
\* the head arc removes nothing, the queue just loses its head; when it leaves
\* x's domain smaller and not empty, the queue loses its head and gets at its
\* tail the arc (z, x) of every variable z other than y that shares a cell
\* with x, each once, and nothing else.
C11_FifoRequeue ==
    [][pc = "ac3_while" /\ queue # <<>> =>
          LET x == Head(queue)[1]
              y == Head(queue)[2]
              tail == SubSeq(queue', Len(queue), Len(queue'))
          IN  /\ rev'.x = x /\ rev'.y = y
              /\ domains'[x] = domains[x] => queue' = Tail(queue)
              /\ domains'[x] # domains[x] /\ domains'[x] # {} =>
                    /\ Len(queue') >= Len(queue) - 1
                    /\ SubSeq(queue', 1, Len(queue) - 1) = Tail(queue)
                    /\ Range(tail) = {<<z, x>> : z \in {v \in crossword.variables \ {y} :
                                                          SharesCell(v, x)}}
                    /\ Len(tail) = Cardinality(Range(tail))]_vars

\* A revision has just put an arc at the tail of the queue.
C11_Witness ==
    /\ pc = "ac3_while"
    /\ rev.called
    /\ rev.returned
    /\ queue # <<>>
    /\ Len(queue) >= Len(initial_arcs)
    /\ queue[Len(queue)][2] = rev.x
    /\ queue[Len(queue)][1] # rev.y

\* C12: ac3(), once called, returns, whatever the variables, the vocabulary
\* and the initial list of arcs: the queue becomes empty or a domain does.
C12_Ac3Terminates ==
    (pc = "ac3_while") ~>
        (ac3_result # "pending" /\ (queue = <<>> \/ \E v \in crossword.variables : domains[v] = {}))

\* ac3() has returned for a list of arcs that left a pair of overlapping
\* variables unrevised.
C12_Witness ==
    /\ ac3_result = "True"
    /\ rev.called
    /\ rev.returned
    /\ \E x, y \in crossword.variables : x # y /\ ~ArcConsistent(x, y)

\* The search as the interpreter runs it: solve() is one sequential call, so a
\* step that is enabled is eventually taken.  The set iteration order of the
\* variables is free, the one of the words is the canonical one.
InitSearch ==
    /\ Init
    /\ wordOrder = CHOOSE order \in IterationOrders(crossword.words) : TRUE

SpecSearch == InitSearch /\ [][Next]_vars /\ WF_vars(Next)

\* C13: once solve() calls backtrack, the search ends, and it ends with a
\* complete assignment returned or with None after the root call has tried
\* every candidate; no (partial assignment, variable, value) choice is made twice.
C13_SearchTerminates ==
    /\ (pc = "backtrack") ~>
           (/\ pc = "done"
            /\ \/ result.kind = "dict" /\ Complete(result.value)
               \/ result = None /\ stack = <<>> /\ assignment = <<>>)
    /\ [][pc = "bt_for" /\ pc' = "bt_check" =>
             <<assignment, Head(stack).var, assignment'[Head(stack).var]>> \notin visited]_vars

C13_Witness ==
    /\ pc = "done"
    /\ result.kind = "dict"
    /\ Cardinality(visited) > Cardinality(crossword.variables)

\* C14: every assignment on which backtrack is called has pairwise distinct
\* words, words of their variables' lengths, and equal letters in every cell
\* two assigned variables share; a tentative assignment that breaks one of the
\* three goes to the del of line 205 with no call of backtrack, and the del
\* removes exactly the tentative variable.
C14_RecursesOnlyOnConsistent ==
    /\ [](pc = "bt_enter" =>
            DistinctWords(assignment) /\ LengthsMatch(assignment) /\ SharedCellsAgree(assignment))
    /\ [][/\ pc = "bt_check" /\ ~(DistinctWords(assignment) /\ LengthsMatch(assignment)
                                    /\ SharedCellsAgree(assignment))
              => pc' = "bt_undo" /\ calls' = calls /\ assignment' = assignment
          /\ pc = "bt_undo" => assignment' = Head(stack).before.assignment]_vars

C14_Witness ==
    /\ pc = "bt_undo"
    /\ DistinctWords(assignment)
    /\ ~SharedCellsAgree(assignment)
    /\ Len(stack) >= 2

\* The variables that cross var, counted on the grid.
Crossing(var) == {u \in crossword.variables \ {var} : SharesCell(u, var)}

\* C15: the variable select_unassigned_variable returned for a call of
\* backtrack is not in that call's assignment, no unassigned variable has a
\* smaller domain, and no unassigned variable of the same domain size crosses
\* more variables.
C15_SelectMrvThenDegree ==
    pc = "bt_for" /\ Head(stack).k = 1 =>
        LET var == Head(stack).var
            unassigned == crossword.variables \ DOMAIN assignment
        IN  /\ var \in unassigned
            /\ \A u \in unassigned :
                   /\ Cardinality(domains[var]) <= Cardinality(domains[u])
                   /\ Cardinality(domains[var]) = Cardinality(domains[u]) =>
                          Cardinality(Crossing(var)) >= Cardinality(Crossing(u))

C15_Witness ==
    /\ pc = "bt_for"
    /\ Head(stack).k = 1
    /\ \E u \in crossword.variables \ DOMAIN assignment :
           /\ Cardinality(domains[u]) = Cardinality(domains[Head(stack).var])
           /\ Cardinality(Crossing(u)) < Cardinality(Crossing(Head(stack).var))
           /\ varOrder[1] = u
    /\ \E u \in crossword.variables \ DOMAIN assignment :
           Cardinality(domains[u]) > Cardinality(domains[Head(stack).var])

\* Runs of main on vocabularies of up to MaxVocab - 1 words that hold AA, a word whose two letters are the
\* same, so that the words of one domain differ in how many words of a crossing
\* domain they rule out, on the structures in which a slot crosses two others,
\* so that a variable has an assigned and an unassigned neighbour.
InitOrder ==
    /\ \E structure \in {StructureThree, StructureBlock},
          words \in {V \cup {AA} : V \in {U \in Vocabularies : Cardinality(U) < MaxVocab - 1}} :
           Fresh(Crossword(structure, words))
    /\ first = Pending

SpecOrder == InitOrder /\ [][Next]_vars

\* The (unassigned crossing variable, word of its domain) pairs whose letter in
\* the shared cell differs from the letter word puts there.
Conflicts(var, a, word) ==
    {p \in UNION {{<<n, u>> : u \in domains[n]} : n \in Crossing(var) \ DOMAIN a} :
        \E k \in 1..var.length, m \in 1..p[1].length :
            cells(var)[k] = cells(p[1])[m] /\ word[k] # p[2][m]}

\* C16: the list order_domain_values returned for a call of backtrack holds
\* every word of the variable's domain exactly once, in non-decreasing number
\* of conflicting (unassigned neighbour, neighbour word) pairs, and the step
\* that computes it changes no domain.
C16_OrderIsSortedPermutation ==
    /\ [](pc = "bt_for" /\ Head(stack).k = 1 =>
            LET var == Head(stack).var
                values == Head(stack).values
            IN  /\ Range(values) = domains[var]
                /\ Len(values) = Cardinality(domains[var])
                /\ \A n \in 1..(Len(values) - 1) :
                       Cardinality(Conflicts(var, assignment, values[n]))
                           <= Cardinality(Conflicts(var, assignment, values[n + 1])))
    /\ [][pc = "bt_enter" => domains' = domains]_vars

C16_Witness ==
    /\ pc = "bt_for"
    /\ Head(stack).k = 1
    /\ LET var == Head(stack).var
           values == Head(stack).values
           iter == IterWords(domains[var])
       IN  /\ Len(values) >= 2
           /\ Cardinality(Conflicts(var, assignment, values[1]))
                  < Cardinality(Conflicts(var, assignment, values[Len(values)]))
           /\ iter[1] # values[1]
           /\ Crossing(var) \cap DOMAIN assignment # {}
           /\ Crossing(var) \ DOMAIN assignment # {}

\* C17: when the creator is built every domain is the whole vocabulary, and no
\* step of enforce_node_consistency, revise, ac3 or backtrack adds a word to a
\* domain: each domain after a step is a subset of the domain before it.
C17_DomainsOnlyShrink ==
    /\ [](pc = "solve" => \A v \in crossword.variables : domains[v] = crossword.words)
    /\ [][\A v \in crossword.variables : domains'[v] \subseteq domains[v]]_vars

C17_Witness ==
    /\ pc = "bt_check"
    /\ \E v \in crossword.variables :
           /\ domains[v] # {}
           /\ domains[v] # {w \in crossword.words : Len(w) = v.length}
           /\ {w \in crossword.words : Len(w) = v.length} # crossword.words

\* C18: a variable is only ever assigned a word of its propagated domain, so
\* every word of the assignment solve() returns is a vocabulary word that is in
\* its variable's domain at the return.
C18_AssignedFromDomain ==
    /\ \A v \in DOMAIN assignment : assignment[v] \in domains[v]
    /\ pc = "done" /\ result.kind = "dict" =>
           \A v \in DOMAIN result.value :
               result.value[v] \in crossword.words /\ result.value[v] \in domains[v]

C18_Witness ==
    /\ pc = "done"
    /\ result.kind = "dict"
    /\ DOMAIN result.value = crossword.variables
    /\ \E v \in crossword.variables :
           /\ Cardinality(domains[v]) >= 2
           /\ \E w \in crossword.words \ domains[v] : Len(w) = v.length

\* The complete consistent assignments over the vocabulary.
Solutions == {a \in [crossword.variables -> crossword.words] : IsSolution(a)}

\* C19: when enforce_node_consistency and then ac3 have returned, each domain
\* still holds every word its variable takes in some complete consistent
\* assignment (domains never grow, so no such word was removed by either on
\* the way); so when ac3 has returned False, or some domain is empty, there is
\* no complete consistent assignment.
C19_PropagationSound ==
    pc = "backtrack" =>
        LET solutions == Solutions
        IN  /\ \A a \in solutions : \A v \in crossword.variables : a[v] \in domains[v]
            /\ ac3_result = "False" \/ ~NoEmptyDomain => solutions = {}

C19_Witness ==
    /\ pc = "backtrack"
    /\ ac3_result = "True"
    /\ Solutions # {}
    /\ \E v \in crossword.variables :
           \E w \in crossword.words \ domains[v] : Len(w) = v.length

====
